---- MODULE Spec2Model ----
(***************************************************************************)
(* stl-bench: the mesh geometry engine.                                    *)
(*                                                                         *)
(*   - the binary STL decoder and its sniffing predicate (bin2ascii.ts),   *)
(*   - the ASCII STL decoder parseAsciiStl,                                *)
(*   - the surface sampler sampleSurfacePoints,                            *)
(*   - the bench comparison compareAsciiStlText and the AABB / Chamfer     *)
(*     helpers it calls.                                                   *)
(*                                                                         *)
(* Each of the four has its own specification (SpecBin, SpecAscii,         *)
(* SpecSample, Spec) over its own group of variables; the variables of the *)
(* other groups stay at their idle values.                                 *)
(*                                                                         *)
(* Numbers.  A JavaScript number is modelled as a record                   *)
(*   [k |-> "fin", n |-> numerator, d |-> denominator]  (an exact rational)*)
(* or one of the IEEE specials k = "pinf", "ninf", "nan".  Arithmetic on   *)
(* finite values is exact (no rounding, no overflow to Infinity, no        *)
(* negative zero); Math.sqrt is rounded down to the denominator's grid.    *)
(* The special values follow IEEE 754 as JavaScript does.                  *)
(***************************************************************************)
EXTENDS Integers, Sequences, FiniteSets, TLC

VARIABLES
  \* ---- binary decoder (bin2ascii.ts)
  buffer,        \* the ArrayBuffer: a sequence of bytes
  binPc,         \* "start" | "loop" | "returned" | "threw"
  binOffset,     \* parseBinaryStl: let offset
  binI,          \* parseBinaryStl: loop counter i
  binTriangles,  \* parseBinaryStl: triangles filled so far
  binError,      \* "none" | "too small" | "mismatch" | "RangeError"
  sniffed,       \* result of isBinaryStl(buffer): "unset" | "true" | "false"
  \* ---- ASCII decoder (parseAsciiStl)
  lines,         \* the text, split into lines; a line is its sequence of tokens
  ascPc,         \* "top" | "seekOuter" | "verts" | "seekEnd" | "done"
  ascI,          \* let i: the line cursor (0-based)
  ascNormal,     \* const normal of the facet being read
  ascVerts,      \* const verts
  ascK,          \* the for loop's k
  ascTriangles,  \* const triangles
  facetLog,      \* history: one record per facet block the parser has closed
  \* ---- the random source
  rngStream,     \* the values the generator yields, repeated cyclically
  rngPos,        \* how many values have been drawn from it
  \* ---- surface sampler (sampleSurfacePoints)
  smpTriangles,  \* parameter triangles
  smpCount,      \* parameter sampleCount
  smpPc,         \* "call" | "loop" | "search" | "returned"
  areas,         \* const areas: per-triangle areas, then their prefix sums
  smpI,          \* the sampling loop's i
  lo,            \* pickTriangleIndex: lo
  hi,            \* pickTriangleIndex: hi
  pickR,         \* pickTriangleIndex: r
  pts,           \* const pts
  \* ---- bench (run, compareAsciiStlText)
  samplesOpt,    \* argv.samples
  srcTris,       \* const srcTris
  genTris,       \* const genTris
  cmpPc,         \* "run" | "boxes" | "measures" | "samplingSrc" | "samplingGen" |
                 \* "chamfer" | "scale" | "done"
  aabbSrc,       \* const aabbSrc
  aabbGen,       \* const aabbGen
  iou,           \* const iou
  measures,      \* areaSrc, areaGen, volSrc, volGen
  ptsSrc,        \* const ptsSrc
  ptsGen,        \* const ptsGen
  chamfer,       \* const chamfer
  metrics,       \* the returned Metrics
  \* ---- chamferDistance called on its own
  cloudA,        \* pointsA
  cloudB,        \* pointsB
  chPc,          \* "call" | "returned"
  chStats,       \* the returned ChamferStats
  \* ---- decode, encode, decode again
  rtPc,          \* "first" | "second": which parseAsciiStl call is running
  rtMesh         \* the triangles the first call returned

binVars == <<buffer, binPc, binOffset, binI, binTriangles, binError, sniffed>>
ascVars == <<lines, ascPc, ascI, ascNormal, ascVerts, ascK, ascTriangles, facetLog>>

rngVars == <<rngStream, rngPos>>
smpVars == <<smpTriangles, smpCount, smpPc, areas, smpI, lo, hi, pickR, pts>>

cmpVars == <<samplesOpt, srcTris, genTris, cmpPc, aabbSrc, aabbGen, iou, measures,
             ptsSrc, ptsGen, chamfer, metrics>>

chVars == <<cloudA, cloudB, chPc, chStats>>

rtVars == <<rtPc, rtMesh>>

vars == <<binVars, ascVars, rngVars, smpVars, cmpVars, chVars, rtVars>>

\* what the actions of one group leave alone
notBin == <<ascVars, rngVars, smpVars, cmpVars, chVars, rtVars>>
notAsc == <<binVars, rngVars, smpVars, cmpVars, chVars, rtVars>>
notSmp == <<binVars, ascVars, cmpVars, chVars, rtVars>>
notCmp == <<binVars, ascVars, chVars, rtVars>>
notCh == <<binVars, ascVars, rngVars, smpVars, cmpVars, rtVars>>
notRt == <<binVars, rngVars, smpVars, cmpVars, chVars>>

-----------------------------------------------------------------------------
(* Bounds *)

MaxTriangles == 2

-----------------------------------------------------------------------------
(* Small helpers *)

RECURSIVE Gcd(_, _)
Gcd(a, b) == IF b = 0 THEN a ELSE Gcd(b, a % b)

Abs(x) == IF x < 0 THEN -x ELSE x

\* floor of the square root of a natural number, by bisection on [lo, hi]
RECURSIVE ISqrtIn(_, _, _)
ISqrtIn(n, from, to) ==
  IF from >= to THEN from
  ELSE LET mid == (from + to + 1) \div 2
       IN  IF mid * mid <= n THEN ISqrtIn(n, mid, to) ELSE ISqrtIn(n, from, mid - 1)

ISqrt(n) == ISqrtIn(n, 0, IF n < 46340 THEN n ELSE 46340)

-----------------------------------------------------------------------------
(* JavaScript numbers *)

Mk(n, d) ==
  LET g == Gcd(Abs(n), Abs(d))
      sgn == IF d < 0 THEN -1 ELSE 1
  IN  [k |-> "fin", n |-> (sgn * n) \div g, d |-> (sgn * d) \div g]

Fin(n) == [k |-> "fin", n |-> n, d |-> 1]
Zero == Fin(0)
One == Fin(1)
PInf == [k |-> "pinf", n |-> 0, d |-> 1]
NInf == [k |-> "ninf", n |-> 0, d |-> 1]
NaN == [k |-> "nan", n |-> 0, d |-> 1]

\* Number.isFinite
IsFinite(x) == x.k = "fin"

Sign(x) ==
  CASE x.k = "pinf" -> 1
    [] x.k = "ninf" -> -1
    [] x.k = "fin" -> (IF x.n > 0 THEN 1 ELSE IF x.n < 0 THEN -1 ELSE 0)
    [] OTHER -> 0

Neg(x) ==
  CASE x.k = "pinf" -> NInf
    [] x.k = "ninf" -> PInf
    [] x.k = "fin" -> Mk(-x.n, x.d)
    [] OTHER -> NaN

\* Number.MAX_VALUE.  The model scales the range of the finite numbers down
\* (the coordinates of the inputs are scaled with it: at most 100, where a
\* text can hold numbers up to about 1.8 * 10^308).
MaxValue == 10 ^ 6

\* the result of an arithmetic operation: a magnitude above MaxValue is
\* +Infinity or -Infinity
Overflow(x) ==
  LET q == Abs(x.n) \div x.d
      r == Abs(x.n) % x.d
  IN  IF q > MaxValue \/ (q = MaxValue /\ r > 0)
        THEN (IF x.n > 0 THEN PInf ELSE NInf)
        ELSE x

\* a + b
NumAdd(a, b) ==
  IF a.k = "nan" \/ b.k = "nan" THEN NaN
  ELSE IF a.k = "fin" /\ b.k = "fin" THEN Overflow(Mk(a.n * b.d + b.n * a.d, a.d * b.d))
  ELSE IF a.k = "fin" THEN b
  ELSE IF b.k = "fin" THEN a
  ELSE IF a.k = b.k THEN a
  ELSE NaN

\* a - b
NumSub(a, b) == NumAdd(a, Neg(b))

\* a * b
NumMul(a, b) ==
  IF a.k = "nan" \/ b.k = "nan" THEN NaN
  ELSE IF a.k = "fin" /\ b.k = "fin" THEN Overflow(Mk(a.n * b.n, a.d * b.d))
  ELSE IF Sign(a) * Sign(b) = 0 THEN NaN
  ELSE IF Sign(a) * Sign(b) > 0 THEN PInf
  ELSE NInf

\* a / b
NumDiv(a, b) ==
  IF a.k = "nan" \/ b.k = "nan" THEN NaN
  ELSE IF a.k = "fin" /\ b.k = "fin" THEN
    IF b.n = 0
      THEN (IF a.n = 0 THEN NaN ELSE IF a.n > 0 THEN PInf ELSE NInf)
      ELSE Overflow(Mk(a.n * b.d, a.d * b.n))
  ELSE IF a.k = "fin" THEN Zero
  ELSE IF b.k # "fin" THEN NaN
  ELSE IF Sign(a) * (IF Sign(b) < 0 THEN -1 ELSE 1) > 0 THEN PInf
  ELSE NInf

\* an/ad < bn/bd for positive denominators, by comparing integer parts and
\* then the reciprocals of the fractional parts (no large products)
RECURSIVE RatLt(_, _, _, _)
RatLt(an, ad, bn, bd) ==
  LET qa == an \div ad
      qb == bn \div bd
      ra == an - qa * ad
      rb == bn - qb * bd
  IN  IF qa # qb THEN qa < qb
      ELSE IF rb = 0 THEN FALSE
      ELSE IF ra = 0 THEN TRUE
      ELSE RatLt(bd, rb, ad, ra)

\* a < b (false when either is NaN)
NumLt(a, b) ==
  IF a.k = "nan" \/ b.k = "nan" THEN FALSE
  ELSE IF a.k = "fin" /\ b.k = "fin" THEN RatLt(a.n, a.d, b.n, b.d)
  ELSE IF a.k = "ninf" THEN b.k # "ninf"
  ELSE IF a.k = "pinf" THEN FALSE
  ELSE b.k = "pinf"

\* a > b
NumGt(a, b) == NumLt(b, a)

\* a <= b
NumLe(a, b) == NumLt(a, b) \/ (a.k # "nan" /\ a = b)

MathMax(a, b) ==
  IF a.k = "nan" \/ b.k = "nan" THEN NaN ELSE IF NumLt(a, b) THEN b ELSE a

MathMin(a, b) ==
  IF a.k = "nan" \/ b.k = "nan" THEN NaN ELSE IF NumLt(b, a) THEN b ELSE a

MathAbs(a) == IF Sign(a) < 0 THEN Neg(a) ELSE a

\* Math.sqrt; a finite result is rounded down to a multiple of 1/d
MathSqrt(a) ==
  CASE a.k = "nan" -> NaN
    [] a.k = "ninf" -> NaN
    [] a.k = "pinf" -> PInf
    [] OTHER -> IF a.n < 0 THEN NaN ELSE Mk(ISqrt(a.n * a.d), a.d)

\* x || 0 on a number or undefined: NaN, 0 and undefined are falsy
Undefined == [k |-> "undefined", n |-> 0, d |-> 1]
OrZero(x) ==
  IF x.k = "undefined" \/ x.k = "nan" \/ (x.k = "fin" /\ x.n = 0) THEN Zero ELSE x

-----------------------------------------------------------------------------
(* Binary STL decoder: src/bin2ascii.ts *)

HeaderSize == 84
TriangleSize == 50
CountOffset == 80

\* DataView.getUint32(off, true): four bytes, little-endian.
getUint32(buf, off) ==
  buf[off + 1] + 256 * buf[off + 2] + 65536 * buf[off + 3] + 16777216 * buf[off + 4]

\* DataView.getFloat32(off, true): the float is kept as its four bytes, in
\* memory order (decoding a bit pattern is injective up to NaN payloads).
getFloat32(buf, off) == <<buf[off + 1], buf[off + 2], buf[off + 3], buf[off + 4]>>

\* A DataView read of w bytes at off throws RangeError unless it lies inside.
InBounds(buf, off, w) == off >= 0 /\ off + w <= Len(buf)

isLikelyBinaryStlNoCount(fileSize, buf) == fileSize >= HeaderSize

isLikelyBinaryStlAtMost(fileSize, buf) ==
  IF fileSize < HeaderSize THEN FALSE
  ELSE HeaderSize + getUint32(buf, CountOffset) * TriangleSize <= fileSize

isLikelyBinaryStl(fileSize, buf) ==
  IF fileSize < HeaderSize THEN FALSE
  ELSE LET triangleCount == getUint32(buf, CountOffset)
           expected == HeaderSize + triangleCount * TriangleSize
       IN  expected = fileSize

readFloat3(buf, off) ==
  <<getFloat32(buf, off + 0), getFloat32(buf, off + 4), getFloat32(buf, off + 8)>>

isBinaryStl(buf) == isLikelyBinaryStl(Len(buf), buf)

\* The bytes the loop body of parseBinaryStl reads at `off`: four readFloat3
\* calls, the last one ending at off + 48.
LoopReadsInBounds(buf, off) ==
  \A base \in {off, off + 12, off + 24, off + 36} :
    \A c \in {0, 4, 8} : InBounds(buf, base + c, 4)

NextOffsetNoAttr(off) == off + 48

\* offset += 50: 48 bytes of floats and the 2 attribute bytes.
NextOffset(off) == off + TriangleSize

\* ---- inputs
\* Lengths run over every value up to one past MaxTriangles records.
MaxBufLen == HeaderSize + TriangleSize * MaxTriangles + 1
\* low byte of the count field, and its second byte
CountLow == 0 .. (MaxTriangles + 1)
CountHigh == {0, 1}
BodySeeds == {0, 7}

\* A buffer: a zero header, the count field, and a body whose byte at offset o
\* is (o + seed) % 251, so that the 4-byte words at different offsets differ.
MakeBuffer(len, c0, c1, seed) ==
  [o1 \in 1 .. len |->
     LET o == o1 - 1 IN
     IF o < CountOffset THEN 0
     ELSE IF o = CountOffset THEN c0
     ELSE IF o = CountOffset + 1 THEN c1
     ELSE IF o < HeaderSize THEN 0
     ELSE (o + seed) % 251]

BinIdle ==
  /\ buffer = <<>>
  /\ binPc = "idle"
  /\ binOffset = 0
  /\ binI = 0
  /\ binTriangles = <<>>
  /\ binError = "none"
  /\ sniffed = "unset"

\* isBinaryStl(buffer), called on its own
IsBinaryStlCall ==
  /\ binPc = "start"
  /\ sniffed = "unset"
  /\ sniffed' = IF isBinaryStl(buffer) THEN "true" ELSE "false"
  /\ UNCHANGED <<buffer, binPc, binOffset, binI, binTriangles, binError>>
  /\ UNCHANGED notBin

\* parseBinaryStl, lines 23-35: the two checks, then the loop set-up
ParseBinaryStlEnter ==
  /\ binPc = "start"
  /\ LET fileSize == Len(buffer) IN
     IF fileSize < HeaderSize
       THEN /\ binPc' = "threw"
            /\ binError' = "too small"
            /\ UNCHANGED <<binOffset, binI, binTriangles>>
     ELSE IF ~isLikelyBinaryStl(fileSize, buffer)
       THEN /\ binPc' = "threw"
            /\ binError' = "mismatch"
            /\ UNCHANGED <<binOffset, binI, binTriangles>>
     ELSE /\ binPc' = "loop"
          /\ binError' = "none"
          /\ binOffset' = HeaderSize
          /\ binI' = 0
          /\ binTriangles' = <<>>
  /\ UNCHANGED <<buffer, sniffed>>
  /\ UNCHANGED notBin

\* parseBinaryStl, lines 36-44: one iteration of the loop
ParseBinaryStlLoop ==
  /\ binPc = "loop"
  /\ binI < getUint32(buffer, CountOffset)
  /\ IF ~LoopReadsInBounds(buffer, binOffset)
       THEN /\ binPc' = "threw"
            /\ binError' = "RangeError"
            /\ UNCHANGED <<binOffset, binI, binTriangles>>
       ELSE LET normal == readFloat3(buffer, binOffset)
                v1 == readFloat3(buffer, binOffset + 12)
                v2 == readFloat3(buffer, binOffset + 24)
                v3 == readFloat3(buffer, binOffset + 36)
            IN  /\ binTriangles' =
                     Append(binTriangles, [normal |-> normal, vertices |-> <<v1, v2, v3>>])
                /\ binOffset' = NextOffset(binOffset)
                /\ binI' = binI + 1
                /\ UNCHANGED <<binPc, binError>>
  /\ UNCHANGED <<buffer, sniffed>>
  /\ UNCHANGED notBin

\* parseBinaryStl, line 46
ParseBinaryStlReturn ==
  /\ binPc = "loop"
  /\ ~(binI < getUint32(buffer, CountOffset))
  /\ binPc' = "returned"
  /\ UNCHANGED <<buffer, binOffset, binI, binTriangles, binError, sniffed>>
  /\ UNCHANGED notBin

-----------------------------------------------------------------------------
(* ASCII STL decoder: src/download_stls.ts, parseAsciiStl *)

\* A line is the sequence of the whitespace-separated tokens of its trimmed
\* text (line.trim().split(/\s+/)); tokens are separated by single blanks, so
\* that startsWith on the text is a test on the leading tokens.
startsWithFacetNormal(line) == Len(line) >= 2 /\ line[1] = "facet" /\ line[2] = "normal"
startsWithOuterLoop(line) == Len(line) >= 2 /\ line[1] = "outer" /\ line[2] = "loop"
startsWithVertex(line) == Len(line) >= 1 /\ line[1] = "vertex"
startsWithEndfacet(line) == Len(line) >= 1 /\ line[1] = "endfacet"

\* Number(v) on the tokens the inputs are made of
Number(v) ==
  CASE v = "0" -> Fin(0)
    [] v = "1" -> Fin(1)
    [] v = "2" -> Fin(2)
    [] v = "3" -> Fin(3)
    [] v = "4" -> Fin(4)
    [] v = "5" -> Fin(5)
    [] v = "6" -> Fin(6)
    [] v = "7" -> Fin(7)
    [] v = "-1" -> Fin(-1)
    [] v = "0.5" -> Mk(1, 2)
    [] v = "-0" -> Fin(0)
    [] v = "0.000001" -> Mk(1, 1000000)
    [] v = "0.000002" -> Mk(2, 1000000)
    [] v = "0.0000014" -> Mk(14, 10000000)
    [] v = "2.9999996" -> Mk(29999996, 10000000)
    [] v = "-0.00000004" -> Mk(-4, 100000000)
    [] v = "Infinity" -> PInf
    [] v = "-Infinity" -> NInf
    [] OTHER -> NaN

\* array[idx], undefined past the end
At(arr, idx) == IF idx >= 0 /\ idx < Len(arr) THEN arr[idx + 1] ELSE Undefined

\* array.slice(from)
Slice(arr, from) == [t \in 1 .. (IF Len(arr) > from THEN Len(arr) - from ELSE 0) |-> arr[t + from]]

parseFloatsFromLine(line) ==
  LET rest == Slice(line, 2) IN [t \in 1 .. Len(rest) |-> Number(rest[t])]

\* vals[0] || 0, vals[1] || 0, vals[2] || 0
Vec3OrZero(vals) == <<OrZero(At(vals, 0)), OrZero(At(vals, 1)), OrZero(At(vals, 2))>>

\* lines[i] ?? ''
LineAt(idx) == IF idx < Len(lines) THEN lines[idx + 1] ELSE <<>>

\* ---- inputs
\* A text is up to MaxPieces pieces, one after the other.  A piece is a single
\* line of one of the five kinds (F facet normal, O outer loop, V vertex,
\* E endfacet, X endloop) or a facet block, well formed or malformed.
MaxPieces == 2

Pieces ==
  << <<"F">>, <<"O">>, <<"V">>, <<"E">>, <<"X">>,
     <<"F", "O", "V", "V", "V", "X", "E">>,
     <<"F", "O", "V", "V", "V", "V", "X", "E">>,
     <<"F", "O", "V", "V", "X", "E">>,
     <<"F", "O", "V", "V", "V">>,
     <<"F", "V", "V", "V", "X", "E">>,
     <<"F", "O", "V", "X", "V", "V", "E">>,
     <<"F", "O", "X", "E">>,
     <<"X", "F", "O", "V", "V", "V", "X", "E">> >>

RECURSIVE Flatten(_)
Flatten(ps) == IF ps = <<>> THEN <<>> ELSE Pieces[Head(ps)] \o Flatten(Tail(ps))

\* The numeric tokens of the line at (0-based) index j.  They depend on j so
\* that lines can be told apart; the lines at j = 1, 5 (mod 8) carry tokens
\* that are not finite decimal numbers, and one token too few.
ArgTokens(j) ==
  CASE j % 8 = 1 -> <<"Infinity", "abc">>
    [] j % 8 = 5 -> <<"-Infinity", "abc", "1">>
    [] j % 4 = 0 -> <<"0", "0", "1">>
    [] j % 4 = 2 -> <<"1", "0.5", "3">>
    [] OTHER -> <<"4", "-1", "2">>

MakeLine(kind, j) ==
  CASE kind = "F" -> <<"facet", "normal">> \o ArgTokens(j)
    [] kind = "O" -> <<"outer", "loop">>
    [] kind = "V" -> <<"vertex">> \o ArgTokens(j)
    [] kind = "E" -> <<"endfacet">>
    [] OTHER -> <<"endloop">>

AscIdle ==
  /\ lines = <<>>
  /\ ascPc = "idle"
  /\ ascI = 0
  /\ ascNormal = <<Zero, Zero, Zero>>
  /\ ascVerts = <<>>
  /\ ascK = 0
  /\ ascTriangles = <<>>
  /\ facetLog = <<>>

\* the facet block being read, for the history
NewFacet(at) == [facetAt |-> at, outerAt |-> -1, firstVertexAt |-> -1, endAt |-> -1,
                 pushed |-> FALSE]

\* the same without the i++ of line 416
AsciiSkipLineNoAdvance ==
  /\ ascPc = "top"
  /\ ascI < Len(lines)
  /\ ~startsWithFacetNormal(LineAt(ascI))
  /\ ascI' = ascI
  /\ UNCHANGED <<lines, ascPc, ascNormal, ascVerts, ascK, ascTriangles, facetLog>>
  /\ UNCHANGED notAsc

\* lines 375-377 and 416: a line that does not start a facet is stepped over
AsciiSkipLine ==
  /\ ascPc = "top"
  /\ ascI < Len(lines)
  /\ ~startsWithFacetNormal(LineAt(ascI))
  /\ ascI' = ascI + 1
  /\ UNCHANGED <<lines, ascPc, ascNormal, ascVerts, ascK, ascTriangles, facetLog>>
  /\ UNCHANGED notAsc

\* lines 377-392: a facet normal line
AsciiFacetNormal ==
  /\ ascPc = "top"
  /\ ascI < Len(lines)
  /\ startsWithFacetNormal(LineAt(ascI))
  /\ ascNormal' = Vec3OrZero(parseFloatsFromLine(LineAt(ascI)))
  /\ facetLog' = Append(facetLog, NewFacet(ascI))
  /\ ascI' = ascI + 1
  /\ ascPc' = "seekOuter"
  /\ UNCHANGED <<lines, ascVerts, ascK, ascTriangles>>
  /\ UNCHANGED notAsc

\* line 394: one iteration of the scan for the outer loop line
AsciiSeekOuter ==
  /\ ascPc = "seekOuter"
  /\ ascI < Len(lines) /\ ~startsWithOuterLoop(LineAt(ascI))
  /\ ascI' = ascI + 1
  /\ UNCHANGED <<lines, ascPc, ascNormal, ascVerts, ascK, ascTriangles, facetLog>>
  /\ UNCHANGED notAsc

\* lines 394-397: the scan ends (outer loop line or end of text); i++, verts = []
AsciiEnterLoop ==
  /\ ascPc = "seekOuter"
  /\ ~(ascI < Len(lines) /\ ~startsWithOuterLoop(LineAt(ascI)))
  /\ facetLog' = [facetLog EXCEPT ![Len(facetLog)].outerAt = ascI]
  /\ ascI' = ascI + 1
  /\ ascVerts' = <<>>
  /\ ascK' = 0
  /\ ascPc' = "verts"
  /\ UNCHANGED <<lines, ascNormal, ascTriangles>>
  /\ UNCHANGED notAsc

\* lines 397-406: one iteration of the for loop that reads a vertex line
AsciiVertex ==
  /\ ascPc = "verts"
  /\ ascK < 3 /\ ascI < Len(lines)
  /\ startsWithVertex(LineAt(ascI))
  /\ LET vline == LineAt(ascI)
         rest == Slice(vline, 1)
         vals == [t \in 1 .. Len(rest) |-> Number(rest[t])]
     IN  ascVerts' = Append(ascVerts, Vec3OrZero(vals))
  /\ facetLog' = IF ascK = 0
                   THEN [facetLog EXCEPT ![Len(facetLog)].firstVertexAt = ascI]
                   ELSE facetLog
  /\ ascK' = ascK + 1
  /\ ascI' = ascI + 1
  /\ UNCHANGED <<lines, ascPc, ascNormal, ascTriangles>>
  /\ UNCHANGED notAsc

\* lines 397-399: the for loop ends (k = 3, end of text, or break)
AsciiVertsEnd ==
  /\ ascPc = "verts"
  /\ ~(ascK < 3 /\ ascI < Len(lines)) \/ ~startsWithVertex(LineAt(ascI))
  /\ ascPc' = "seekEnd"
  /\ UNCHANGED <<lines, ascI, ascNormal, ascVerts, ascK, ascTriangles, facetLog>>
  /\ UNCHANGED notAsc

\* line 408: one iteration of the scan for the endfacet line
AsciiSeekEnd ==
  /\ ascPc = "seekEnd"
  /\ ascI < Len(lines) /\ ~startsWithEndfacet(LineAt(ascI))
  /\ ascI' = ascI + 1
  /\ UNCHANGED <<lines, ascPc, ascNormal, ascVerts, ascK, ascTriangles, facetLog>>
  /\ UNCHANGED notAsc

\* verts.length === 3
HasThreeVerts(verts) == Len(verts) = 3

\* lines 408-416: the scan ends; the triangle is pushed if verts.length === 3; i++
AsciiCloseFacet ==
  /\ ascPc = "seekEnd"
  /\ ~(ascI < Len(lines) /\ ~startsWithEndfacet(LineAt(ascI)))
  /\ IF HasThreeVerts(ascVerts)
       THEN ascTriangles' =
              Append(ascTriangles,
                     [normal |-> ascNormal,
                      vertices |-> <<At(ascVerts, 0), At(ascVerts, 1), At(ascVerts, 2)>>])
       ELSE ascTriangles' = ascTriangles
  /\ facetLog' = [facetLog EXCEPT ![Len(facetLog)].endAt = ascI,
                                  ![Len(facetLog)].pushed = HasThreeVerts(ascVerts)]
  /\ ascI' = ascI + 1
  /\ ascPc' = "top"
  /\ UNCHANGED <<lines, ascNormal, ascVerts, ascK>>
  /\ UNCHANGED notAsc

\* lines 375 and 418: the cursor is past the last line; return triangles
AsciiReturn ==
  /\ ascPc = "top"
  /\ ~(ascI < Len(lines))
  /\ ascPc' = "done"
  /\ UNCHANGED <<lines, ascI, ascNormal, ascVerts, ascK, ascTriangles, facetLog>>
  /\ UNCHANGED notAsc

-----------------------------------------------------------------------------
(* ASCII STL encoder: src/bin2ascii.ts, trianglesToAscii *)

RECURSIVE Pow10(_)
Pow10(p) == IF p = 0 THEN 1 ELSE 10 * Pow10(p - 1)

\* the decimal digits of n, in a field of width digits
RECURSIVE DigitString(_, _)
DigitString(n, width) ==
  IF width = 0 THEN "" ELSE DigitString(n \div 10, width - 1) \o ToString(n % 10)

\* value.toFixed(precision) for a finite value below 10^21: the sign, and the
\* integer n for which n / 10^precision is nearest to |value| (the larger n
\* when two are equally near), split into its integer and fraction digits
toFixed(value, precision) ==
  LET g == Gcd(Pow10(precision), value.d)
      n == (2 * Abs(value.n) * (Pow10(precision) \div g) + value.d \div g)
             \div (2 * (value.d \div g))
  IN  [neg |-> value.n < 0, int |-> n \div Pow10(precision), frac |-> n % Pow10(precision)]

\* what the two replacements leave of the "." and the width fraction digits:
\* nothing when there is no '.' or every digit is 0, else the digits without
\* their trailing zeros
RECURSIVE trimTrailingZeros(_, _)
trimTrailingZeros(frac, width) ==
  IF width = 0 \/ frac = 0 THEN ""
  ELSE IF frac % 10 = 0 THEN trimTrailingZeros(frac \div 10, width - 1)
  ELSE "." \o DigitString(frac, width)

formatFloat(value, precision) ==
  IF ~IsFinite(value) THEN "0"
  ELSE LET fixed == toFixed(value, precision)
       IN  (IF fixed.neg THEN "-" ELSE "") \o ToString(fixed.int)
             \o trimTrailingZeros(fixed.frac, precision)

FormatVec3(v, precision) ==
  <<formatFloat(v[1], precision), formatFloat(v[2], precision), formatFloat(v[3], precision)>>

\* the lines pushed for the triangles, in order
RECURSIVE FacetLines(_, _)
FacetLines(triangles, precision) ==
  IF triangles = <<>> THEN <<>>
  ELSE LET tri == Head(triangles)
       IN  << <<"facet", "normal">> \o FormatVec3(tri.normal, precision),
              <<"outer", "loop">>,
              <<"vertex">> \o FormatVec3(tri.vertices[1], precision),
              <<"vertex">> \o FormatVec3(tri.vertices[2], precision),
              <<"vertex">> \o FormatVec3(tri.vertices[3], precision),
              <<"endloop">>,
              <<"endfacet">> >> \o FacetLines(Tail(triangles), precision)

\* the text, as the lines that lines.join('\n') puts one per line
trianglesToAscii(triangles, solidName, precision) ==
  << <<"solid", solidName>> >> \o FacetLines(triangles, precision)
    \o << <<"endsolid", solidName>> >>

RtIdle ==
  /\ rtPc = "idle"
  /\ rtMesh = <<>>

\* the mesh a first parseAsciiStl returned is written with precision 6 and
\* the text is given to a second parseAsciiStl
RoundTripEncode ==
  /\ rtPc = "first"
  /\ ascPc = "done"
  /\ rtMesh' = ascTriangles
  /\ lines' = trianglesToAscii(ascTriangles, "mesh", 6)
  /\ rtPc' = "second"
  /\ ascPc' = "top"
  /\ ascI' = 0
  /\ ascNormal' = <<Zero, Zero, Zero>>
  /\ ascVerts' = <<>>
  /\ ascK' = 0
  /\ ascTriangles' = <<>>
  /\ facetLog' = <<>>
  /\ UNCHANGED notRt

\* ---- inputs: numeric tokens with more than 6 decimals
FineTokens(j) ==
  CASE j % 3 = 0 -> <<"0.0000014", "-1", "0.5">>
    [] j % 3 = 1 -> <<"-0.00000004", "3", "2.9999996">>
    [] OTHER -> <<"4", "0.000001", "-0">>

MakeFineLine(kind, j) ==
  CASE kind = "F" -> <<"facet", "normal">> \o FineTokens(j)
    [] kind = "V" -> <<"vertex">> \o FineTokens(j)
    [] OTHER -> MakeLine(kind, j)

-----------------------------------------------------------------------------
(* Geometry primitives: src/download_stls.ts *)

Vec3Of(x, y, z) == <<Fin(x), Fin(y), Fin(z)>>

\* the vertices of a triangle list, in order
RECURSIVE VerticesOf(_)
VerticesOf(triangles) ==
  IF triangles = <<>> THEN <<>>
  ELSE Head(triangles).vertices \o VerticesOf(Tail(triangles))

\* the loops of aabbOfTriangles over the vertices vs, from the box so far
RECURSIVE AabbFold(_, _)
AabbFold(box, vs) ==
  IF vs = <<>> THEN box
  ELSE LET v == Head(vs)
           min == [c \in 1 .. 3 |-> IF NumLt(v[c], box.min[c]) THEN v[c] ELSE box.min[c]]
           max == [c \in 1 .. 3 |-> IF NumGt(v[c], box.max[c]) THEN v[c] ELSE box.max[c]]
       IN  AabbFold([null |-> FALSE, min |-> min, max |-> max], Tail(vs))

aabbOfTriangles(triangles) ==
  AabbFold([null |-> FALSE, min |-> <<PInf, PInf, PInf>>, max |-> <<NInf, NInf, NInf>>],
           VerticesOf(triangles))

aabbVolumeUnclamped(box) ==
  NumMul(NumMul(NumSub(box.max[1], box.min[1]), NumSub(box.max[2], box.min[2])),
         NumSub(box.max[3], box.min[3]))

aabbVolume(box) ==
  LET dx == MathMax(Zero, NumSub(box.max[1], box.min[1]))
      dy == MathMax(Zero, NumSub(box.max[2], box.min[2]))
      dz == MathMax(Zero, NumSub(box.max[3], box.min[3]))
  IN  NumMul(NumMul(dx, dy), dz)

\* the value null
NullBox == [null |-> TRUE, min |-> <<Zero, Zero, Zero>>, max |-> <<Zero, Zero, Zero>>]

aabbIntersection(a, b) ==
  LET min == [c \in 1 .. 3 |-> MathMax(a.min[c], b.min[c])]
      max == [c \in 1 .. 3 |-> MathMin(a.max[c], b.max[c])]
  IN  IF NumLt(max[1], min[1]) \/ NumLt(max[2], min[2]) \/ NumLt(max[3], min[3])
        THEN NullBox
        ELSE [null |-> FALSE, min |-> min, max |-> max]

aabbIouNoGuard(a, b) ==
  LET inter == aabbIntersection(a, b) IN
  IF inter.null THEN Zero
  ELSE LET vI == aabbVolume(inter)
           vU == NumSub(NumAdd(aabbVolume(a), aabbVolume(b)), vI)
       IN  NumDiv(vI, vU)

aabbIou(a, b) ==
  LET inter == aabbIntersection(a, b) IN
  IF inter.null THEN Zero
  ELSE LET vI == aabbVolume(inter)
           vU == NumSub(NumAdd(aabbVolume(a), aabbVolume(b)), vI)
       IN  IF NumGt(vU, Zero) THEN NumDiv(vI, vU) ELSE Zero

cross(a, b) ==
  << NumSub(NumMul(a[2], b[3]), NumMul(a[3], b[2])),
     NumSub(NumMul(a[3], b[1]), NumMul(a[1], b[3])),
     NumSub(NumMul(a[1], b[2]), NumMul(a[2], b[1])) >>

dot(a, b) == NumAdd(NumAdd(NumMul(a[1], b[1]), NumMul(a[2], b[2])), NumMul(a[3], b[3]))

triangleArea(t) ==
  LET a == t.vertices[1]
      b == t.vertices[2]
      c == t.vertices[3]
      ab == <<NumSub(b[1], a[1]), NumSub(b[2], a[2]), NumSub(b[3], a[3])>>
      ac == <<NumSub(c[1], a[1]), NumSub(c[2], a[2]), NumSub(c[3], a[3])>>
      cr == cross(ab, ac)
      mag == MathSqrt(dot(cr, cr))
  IN  NumMul(Mk(1, 2), mag)

\* triangles.reduce((sum, t) => sum + triangleArea(t), 0)
RECURSIVE SumAreas(_, _)
SumAreas(sum, triangles) ==
  IF triangles = <<>> THEN sum
  ELSE SumAreas(NumAdd(sum, triangleArea(Head(triangles))), Tail(triangles))

surfaceArea(triangles) == SumAreas(Zero, triangles)

RECURSIVE SumVol6(_, _)
SumVol6(sum, triangles) ==
  IF triangles = <<>> THEN sum
  ELSE LET t == Head(triangles)
           cr == cross(t.vertices[2], t.vertices[3])
       IN  SumVol6(NumAdd(sum, dot(t.vertices[1], cr)), Tail(triangles))

signedVolume(triangles) == NumDiv(SumVol6(Zero, triangles), Fin(6))

squaredDistance(a, b) ==
  LET dx == NumSub(a[1], b[1])
      dy == NumSub(a[2], b[2])
      dz == NumSub(a[3], b[3])
  IN  NumAdd(NumAdd(NumMul(dx, dx), NumMul(dy, dy)), NumMul(dz, dz))

aabbDiagonal(box) ==
  LET dx == NumSub(box.max[1], box.min[1])
      dy == NumSub(box.max[2], box.min[2])
      dz == NumSub(box.max[3], box.min[3])
  IN  MathSqrt(NumAdd(NumAdd(NumMul(dx, dx), NumMul(dy, dy)), NumMul(dz, dz)))

-----------------------------------------------------------------------------
(* Surface sampler: src/download_stls.ts, sampleSurfacePoints *)

\* rng(): the value the generator yields at its p-th call (0-based)
RngAt(p) == rngStream[(p % Len(rngStream)) + 1]

\* lines 515-522: the per-triangle areas
AreasOf(triangles) == [x \in 1 .. Len(triangles) |-> triangleArea(triangles[x])]

RECURSIVE SumSeq(_, _)
SumSeq(sum, xs) == IF xs = <<>> THEN sum ELSE SumSeq(NumAdd(sum, Head(xs)), Tail(xs))

\* lines 523-527: the uniform fallback when the total area is 0
WeightsNoFallback(triangles) == AreasOf(triangles)

Weights(triangles) ==
  LET a == AreasOf(triangles)
      total == SumSeq(Zero, a)
  IN  IF total = Zero THEN [x \in 1 .. Len(triangles) |-> One] ELSE a

\* lines 529-534: areas[i] becomes the sum of the weights 0..i
RECURSIVE PrefixFrom(_, _, _)
PrefixFrom(w, x, cumulative) ==
  IF x > Len(w) THEN w
  ELSE LET c == NumAdd(cumulative, w[x])
       IN  PrefixFrom([w EXCEPT ![x] = c], x + 1, c)

PrefixSums(w) == IF w = <<>> THEN w ELSE PrefixFrom(w, 2, w[1])

\* lines 549-560
samplePointInTriangle(a, b, c, u1, u2) ==
  LET r1 == MathSqrt(u1)
      r2 == u2
      u == NumSub(One, r1)
      v == NumMul(r1, NumSub(One, r2))
      w == NumMul(r1, r2)
  IN  [x \in 1 .. 3 |->
         NumAdd(NumAdd(NumMul(u, a[x]), NumMul(v, b[x])), NumMul(w, c[x]))]

\* an element of new Array(sampleCount) that has not been assigned
Hole == <<>>

\* if (n === 0 || sampleCount <= 0) return [];
ReturnsEmpty(n, sampleCount) == n = 0 \/ sampleCount <= 0

LoopContinuesOneShort(i, sampleCount) == i + 1 < sampleCount

\* for (let i = 0; i < sampleCount; i++)
LoopContinues(i, sampleCount) == i < sampleCount

SmpIdle ==
  /\ smpTriangles = <<>>
  /\ smpCount = 0
  /\ smpPc = "idle"
  /\ areas = <<>>
  /\ smpI = 0
  /\ lo = 0
  /\ hi = 0
  /\ pickR = Zero
  /\ pts = <<>>

\* lines 513-534 and 562: the early return, or the weights and the result array
SampleEnter ==
  /\ smpPc = "call"
  /\ IF ReturnsEmpty(Len(smpTriangles), smpCount)
       THEN /\ smpPc' = "returned"
            /\ pts' = <<>>
            /\ UNCHANGED <<areas, smpI>>
       ELSE /\ areas' = PrefixSums(Weights(smpTriangles))
            /\ pts' = [x \in 1 .. smpCount |-> Hole]
            /\ smpI' = 0
            /\ smpPc' = "loop"
  /\ UNCHANGED <<smpTriangles, smpCount, lo, hi, pickR, rngVars>>
  /\ UNCHANGED notSmp

\* lines 563-564 and 537-540: the draw of pickTriangleIndex
SamplePickDraw ==
  /\ smpPc = "loop"
  /\ LoopContinues(smpI, smpCount)
  /\ LET n == Len(smpTriangles)
         totalArea == areas[n]
     IN  /\ pickR' = NumMul(RngAt(rngPos), totalArea)
         /\ lo' = 0
         /\ hi' = n - 1
  /\ rngPos' = rngPos + 1
  /\ smpPc' = "search"
  /\ UNCHANGED <<smpTriangles, smpCount, areas, smpI, pts, rngStream>>
  /\ UNCHANGED notSmp

\* the same with r < cutoff in the place of r <= cutoff
SamplePickStepStrict ==
  /\ smpPc = "search"
  /\ lo < hi
  /\ LET mid == (lo + hi) \div 2
         cutoff == areas[mid + 1]
     IN  IF NumLt(pickR, cutoff)
           THEN hi' = mid /\ lo' = lo
           ELSE lo' = mid + 1 /\ hi' = hi
  /\ UNCHANGED <<smpTriangles, smpCount, smpPc, areas, smpI, pickR, pts, rngVars>>
  /\ UNCHANGED notSmp

\* lines 541-545: one iteration of the binary search
SamplePickStep ==
  /\ smpPc = "search"
  /\ lo < hi
  /\ LET mid == (lo + hi) \div 2
         cutoff == areas[mid + 1]
     IN  IF NumLe(pickR, cutoff)
           THEN hi' = mid /\ lo' = lo
           ELSE lo' = mid + 1 /\ hi' = hi
  /\ UNCHANGED <<smpTriangles, smpCount, smpPc, areas, smpI, pickR, pts, rngVars>>
  /\ UNCHANGED notSmp

\* lines 546 and 565-567: the index is lo; a point of that triangle is stored
SamplePlace ==
  /\ smpPc = "search"
  /\ ~(lo < hi)
  /\ LET tri == smpTriangles[lo + 1]
         p == samplePointInTriangle(tri.vertices[1], tri.vertices[2], tri.vertices[3],
                                    RngAt(rngPos), RngAt(rngPos + 1))
     IN  pts' = [pts EXCEPT ![smpI + 1] = p]
  /\ rngPos' = rngPos + 2
  /\ smpI' = smpI + 1
  /\ smpPc' = "loop"
  /\ UNCHANGED <<smpTriangles, smpCount, areas, lo, hi, pickR, rngStream>>
  /\ UNCHANGED notSmp

\* lines 563 and 569: the loop is over; return pts
SampleReturn ==
  /\ smpPc = "loop"
  /\ ~LoopContinues(smpI, smpCount)
  /\ smpPc' = "returned"
  /\ UNCHANGED <<smpTriangles, smpCount, areas, smpI, lo, hi, pickR, pts, rngVars>>
  /\ UNCHANGED notSmp

\* ---- inputs
MaxMeshTriangles == 3
MaxSampleCount == 2
RngPeriod == 3

RngVals == {Zero, Mk(1, 4), Mk(3, 4)}

Tri(a, b, c) == [normal |-> <<Zero, Zero, Zero>>, vertices |-> <<a, b, c>>]

\* a flat triangle of area 1/2, a larger triangle not through the origin, and
\* a triangle whose three vertices coincide (area 0)
FlatTriangle == Tri(Vec3Of(0, 0, 0), Vec3Of(1, 0, 0), Vec3Of(0, 1, 0))
BigTriangle == Tri(Vec3Of(2, 0, 0), Vec3Of(0, 2, 0), Vec3Of(0, 0, 2))
PointTriangle == Tri(Vec3Of(1, 1, 1), Vec3Of(1, 1, 1), Vec3Of(1, 1, 1))

SampleTriangles == {FlatTriangle, BigTriangle, PointTriangle}

\* ---- inputs of pickTriangleIndex on its own: the non-decreasing arrays of
\* 1 to MaxWeights cumulative weights, and draws below and above 1
MaxWeights == 4

CumulativeWeights == {Fin(0), Fin(1), Fin(2), Fin(3)}

PrefixArrays ==
  UNION { {w \in [1 .. n -> CumulativeWeights] :
             \A x \in 1 .. n - 1 : NumLe(w[x], w[x + 1])} : n \in 1 .. MaxWeights }

PickDraws == {Zero, Mk(1, 4), Mk(1, 2), Mk(3, 4), One, Mk(5, 4)}

-----------------------------------------------------------------------------
(* Chamfer distance: src/download_stls.ts, chamferDistance *)

\* the largest instead of the smallest squared distance
RECURSIVE BestD2Farthest(_, _, _)
BestD2Farthest(best, p, bs) ==
  IF bs = <<>> THEN best
  ELSE LET d2 == squaredDistance(p, Head(bs))
       IN  BestD2Farthest(IF NumLt(best, d2) THEN d2 ELSE best, p, Tail(bs))

\* lines 592-597: the smallest squared distance from p to the points bs
RECURSIVE BestD2(_, _, _)
BestD2(best, p, bs) ==
  IF bs = <<>> THEN best
  ELSE LET d2 == squaredDistance(p, Head(bs))
       IN  BestD2(IF NumLt(d2, best) THEN d2 ELSE best, p, Tail(bs))

\* xs with x inserted before the first element greater than it
RECURSIVE Insert(_, _)
Insert(x, xs) ==
  IF xs = <<>> THEN <<x>>
  ELSE IF NumLt(x, Head(xs)) THEN <<x>> \o xs
  ELSE <<Head(xs)>> \o Insert(x, Tail(xs))

\* mins.sort((x, y) => x - y)
RECURSIVE SortAscending(_)
SortAscending(xs) ==
  IF xs = <<>> THEN <<>> ELSE Insert(Head(xs), SortAscending(Tail(xs)))

P95IndexLast(len) == len - 1

\* Math.min(mins.length - 1, Math.floor(mins.length * 0.95)).  The double
\* nearest to 0.95 is below 0.95 by less than 2^-54 relative, so the rounded
\* product len * 0.95 is the integer 19 * len / 20 when len is a multiple of
\* 20 and is otherwise at least 1/20 away from an integer: its floor is the
\* floor of the exact product.
P95Index(len) == IF len - 1 < (len * 95) \div 100 THEN len - 1 ELSE (len * 95) \div 100

oneWay(a, b) ==
  LET unsorted == [x \in 1 .. Len(a) |-> MathSqrt(BestD2(PInf, a[x], b))]
      mins == SortAscending(unsorted)
      mean == NumDiv(SumSeq(Zero, mins), Fin(IF Len(mins) = 0 THEN 1 ELSE Len(mins)))
      p95 == LET v == At(mins, P95Index(Len(mins))) IN IF v = Undefined THEN Zero ELSE v
      max == LET v == At(mins, Len(mins) - 1) IN IF v = Undefined THEN Zero ELSE v
  IN  [mean |-> mean, p95 |-> p95, max |-> max]

chamferDistance(pointsA, pointsB) ==
  LET ab == oneWay(pointsA, pointsB)
      ba == oneWay(pointsB, pointsA)
  IN  [meanAB |-> ab.mean, meanBA |-> ba.mean, p95AB |-> ab.p95, p95BA |-> ba.p95,
       maxAB |-> ab.max, maxBA |-> ba.max]

\* ---- chamferDistance as a function of two point sets
ChIdle ==
  /\ cloudA = <<>>
  /\ cloudB = <<>>
  /\ chPc = "idle"
  /\ chStats = <<>>

ChamferCall ==
  /\ chPc = "call"
  /\ chStats' = chamferDistance(cloudA, cloudB)
  /\ chPc' = "returned"
  /\ UNCHANGED <<cloudA, cloudB>>
  /\ UNCHANGED notCh

\* ---- inputs: clouds of up to MaxCloud points on a line, in ascending,
\* descending, scrambled and constant order
MaxCloud == 21

CloudOf(c, stride, y) == [x \in 1 .. c |-> Vec3Of((x * stride) % 23, y, 0)]

-----------------------------------------------------------------------------
(* Bench: src/bench.ts, run and compareAsciiStlText *)

\* const sampleN = 2000 (bench.ts:46), which is also the default of --samples
\* (bench.ts:78).  The model scales it down, so that the two point clouds of
\* a comparison stay small.
sampleN == 2

\* the floor 1e-9 of the scale
DiagFloor == Mk(1, 1000000000)

\* a > 0 && b > 0 ? Math.min(a, b) / Math.max(a, b) : 0
Ratio(a, b) ==
  IF NumGt(a, Zero) /\ NumGt(b, Zero) THEN NumDiv(MathMin(a, b), MathMax(a, b)) ELSE Zero

CmpIdle ==
  /\ samplesOpt = 0
  /\ srcTris = <<>>
  /\ genTris = <<>>
  /\ cmpPc = "idle"
  /\ aabbSrc = NullBox
  /\ aabbGen = NullBox
  /\ iou = Zero
  /\ measures = <<>>
  /\ ptsSrc = <<>>
  /\ ptsGen = <<>>
  /\ chamfer = <<>>
  /\ metrics = <<>>

\* run, line 116: compareAsciiStlText(srcText, genText); argv.samples is not passed
BenchRun ==
  /\ cmpPc = "run"
  /\ cmpPc' = "boxes"
  /\ UNCHANGED <<samplesOpt, srcTris, genTris, aabbSrc, aabbGen, iou, measures,
                 ptsSrc, ptsGen, chamfer, metrics>>
  /\ UNCHANGED <<rngVars, smpVars>>
  /\ UNCHANGED notCmp

\* lines 37-39
CompareBoxes ==
  /\ cmpPc = "boxes"
  /\ aabbSrc' = aabbOfTriangles(srcTris)
  /\ aabbGen' = aabbOfTriangles(genTris)
  /\ iou' = aabbIou(aabbOfTriangles(srcTris), aabbOfTriangles(genTris))
  /\ cmpPc' = "measures"
  /\ UNCHANGED <<samplesOpt, srcTris, genTris, measures, ptsSrc, ptsGen, chamfer, metrics>>
  /\ UNCHANGED <<rngVars, smpVars>>
  /\ UNCHANGED notCmp

\* lines 41-47: the areas and volumes, then sampleSurfacePoints(srcTris, sampleN)
CompareMeasures ==
  /\ cmpPc = "measures"
  /\ measures' = [areaSrc |-> surfaceArea(srcTris),
                  areaGen |-> surfaceArea(genTris),
                  volSrc |-> MathAbs(signedVolume(srcTris)),
                  volGen |-> MathAbs(signedVolume(genTris))]
  /\ smpTriangles' = srcTris
  /\ smpCount' = sampleN
  /\ smpPc' = "call"
  /\ cmpPc' = "samplingSrc"
  /\ UNCHANGED <<samplesOpt, srcTris, genTris, aabbSrc, aabbGen, iou, ptsSrc, ptsGen,
                 chamfer, metrics>>
  /\ UNCHANGED <<rngVars, areas, smpI, lo, hi, pickR, pts>>
  /\ UNCHANGED notCmp

\* lines 47-48: ptsSrc is returned; sampleSurfacePoints(genTris, sampleN)
CompareSampleGen ==
  /\ cmpPc = "samplingSrc"
  /\ smpPc = "returned"
  /\ ptsSrc' = pts
  /\ smpTriangles' = genTris
  /\ smpCount' = sampleN
  /\ smpPc' = "call"
  /\ cmpPc' = "samplingGen"
  /\ UNCHANGED <<samplesOpt, srcTris, genTris, aabbSrc, aabbGen, iou, measures, ptsGen,
                 chamfer, metrics>>
  /\ UNCHANGED <<rngVars, areas, smpI, lo, hi, pickR, pts>>
  /\ UNCHANGED notCmp

\* lines 48-49: ptsGen is returned; chamferDistance(ptsSrc, ptsGen)
CompareChamfer ==
  /\ cmpPc = "samplingGen"
  /\ smpPc = "returned"
  /\ ptsGen' = pts
  /\ chamfer' = chamferDistance(ptsSrc, pts)
  /\ smpPc' = "idle"
  /\ cmpPc' = "scale"
  /\ UNCHANGED <<samplesOpt, srcTris, genTris, aabbSrc, aabbGen, iou, measures, ptsSrc,
                 metrics>>
  /\ UNCHANGED <<rngVars, smpTriangles, smpCount, areas, smpI, lo, hi, pickR, pts>>
  /\ UNCHANGED notCmp

\* lines 51-67: the scale, the scaled Chamfer values and the returned bundle
CompareReturn ==
  /\ cmpPc = "scale"
  /\ LET diag == MathMax(DiagFloor, MathMax(aabbDiagonal(aabbSrc), aabbDiagonal(aabbGen)))
     IN  metrics' =
           [aabbIou |-> iou,
            surfaceAreaRatio |-> Ratio(measures.areaGen, measures.areaSrc),
            volumeRatio |-> Ratio(measures.volGen, measures.volSrc),
            meanAB |-> NumDiv(chamfer.meanAB, diag),
            meanBA |-> NumDiv(chamfer.meanBA, diag),
            p95AB |-> NumDiv(chamfer.p95AB, diag),
            p95BA |-> NumDiv(chamfer.p95BA, diag),
            maxAB |-> NumDiv(chamfer.maxAB, diag),
            maxBA |-> NumDiv(chamfer.maxBA, diag)]
  /\ cmpPc' = "done"
  /\ UNCHANGED <<samplesOpt, srcTris, genTris, aabbSrc, aabbGen, iou, measures, ptsSrc,
                 ptsGen, chamfer>>
  /\ UNCHANGED <<rngVars, smpVars>>
  /\ UNCHANGED notCmp

\* ---- inputs
MaxSamplesOption == 3

LineTriangle == Tri(Vec3Of(0, 0, 0), Vec3Of(1, 1, 1), Vec3Of(2, 2, 2))

\* a triangle whose coordinates are finite and whose area is not: the square
\* of the cross product is above MaxValue
HugeTriangle == Tri(Vec3Of(100, 0, 0), Vec3Of(0, 100, 0), Vec3Of(0, 0, 0))

\* the four faces of the tetrahedron on the origin and the three unit points
Tetrahedron ==
  << Tri(Vec3Of(0, 0, 0), Vec3Of(0, 1, 0), Vec3Of(1, 0, 0)),
     Tri(Vec3Of(0, 0, 0), Vec3Of(1, 0, 0), Vec3Of(0, 0, 1)),
     Tri(Vec3Of(0, 0, 0), Vec3Of(0, 0, 1), Vec3Of(0, 1, 0)),
     Tri(Vec3Of(1, 0, 0), Vec3Of(0, 1, 0), Vec3Of(0, 0, 1)) >>

\* the decoded meshes a comparison is given: the empty mesh, a flat mesh, a
\* single point, a degenerate (collinear) triangle, open and closed surfaces
BenchMeshes ==
  { <<>>, <<FlatTriangle>>, <<PointTriangle>>, <<LineTriangle>>, <<BigTriangle>>,
    <<FlatTriangle, BigTriangle>>, Tetrahedron, <<HugeTriangle>> }

BenchStreams ==
  { <<Zero>>, <<Mk(1, 4), Mk(3, 4), Zero>>, <<Mk(3, 4), Mk(1, 4)>>,
    <<Mk(1, 4), Zero, Mk(3, 4), Mk(3, 4)>> }

-----------------------------------------------------------------------------
(* Specifications *)

RngIdle ==
  /\ rngStream = <<Zero>>
  /\ rngPos = 0

InitBin ==
  /\ \E len \in 0 .. MaxBufLen, c0 \in CountLow, c1 \in CountHigh, seed \in BodySeeds :
       buffer = MakeBuffer(len, c0, c1, seed)
  /\ binPc = "start"
  /\ binOffset = 0
  /\ binI = 0
  /\ binTriangles = <<>>
  /\ binError = "none"
  /\ sniffed = "unset"
  /\ AscIdle
  /\ RngIdle
  /\ SmpIdle
  /\ CmpIdle
  /\ ChIdle
  /\ RtIdle

NextBin ==
  \/ IsBinaryStlCall
  \/ ParseBinaryStlEnter
  \/ ParseBinaryStlLoop
  \/ ParseBinaryStlReturn

SpecBin == InitBin /\ [][NextBin]_vars

\* every text of at most MaxPieces pieces
InitAscii ==
  /\ \E n \in 0 .. MaxPieces :
       \E ps \in [1 .. n -> 1 .. Len(Pieces)] :
         LET kinds == Flatten(ps)
         IN  lines = [j1 \in 1 .. Len(kinds) |-> MakeLine(kinds[j1], j1 - 1)]
  /\ ascPc = "top"
  /\ ascI = 0
  /\ ascNormal = <<Zero, Zero, Zero>>
  /\ ascVerts = <<>>
  /\ ascK = 0
  /\ ascTriangles = <<>>
  /\ facetLog = <<>>
  /\ BinIdle
  /\ RngIdle
  /\ SmpIdle
  /\ CmpIdle
  /\ ChIdle
  /\ RtIdle

NextAscii ==
  \/ AsciiSkipLine
  \/ AsciiFacetNormal
  \/ AsciiSeekOuter
  \/ AsciiEnterLoop
  \/ AsciiVertex
  \/ AsciiVertsEnd
  \/ AsciiSeekEnd
  \/ AsciiCloseFacet
  \/ AsciiReturn

SpecAscii == InitAscii /\ [][NextAscii]_vars

\* parseAsciiStl is a synchronous loop: it keeps running until it returns
SpecAsciiFair == SpecAscii /\ WF_vars(NextAscii)

\* parseAsciiStl, trianglesToAscii with precision 6, parseAsciiStl again
InitRound ==
  /\ \E n \in 0 .. MaxPieces :
       \E ps \in [1 .. n -> 1 .. Len(Pieces)] :
         \E fine \in BOOLEAN :
           LET kinds == Flatten(ps)
           IN  lines = [j1 \in 1 .. Len(kinds) |->
                          IF fine THEN MakeFineLine(kinds[j1], j1 - 1)
                                  ELSE MakeLine(kinds[j1], j1 - 1)]
  /\ ascPc = "top"
  /\ ascI = 0
  /\ ascNormal = <<Zero, Zero, Zero>>
  /\ ascVerts = <<>>
  /\ ascK = 0
  /\ ascTriangles = <<>>
  /\ facetLog = <<>>
  /\ rtPc = "first"
  /\ rtMesh = <<>>
  /\ BinIdle
  /\ RngIdle
  /\ SmpIdle
  /\ CmpIdle
  /\ ChIdle

NextRound ==
  \/ AsciiSkipLine
  \/ AsciiFacetNormal
  \/ AsciiSeekOuter
  \/ AsciiEnterLoop
  \/ AsciiVertex
  \/ AsciiVertsEnd
  \/ AsciiSeekEnd
  \/ AsciiCloseFacet
  \/ AsciiReturn
  \/ RoundTripEncode

SpecRound == InitRound /\ [][NextRound]_vars

\* one call of sampleSurfacePoints(triangles, sampleCount, rng)
InitSample ==
  /\ \E n \in 0 .. MaxMeshTriangles : smpTriangles \in [1 .. n -> SampleTriangles]
  /\ smpCount \in -1 .. MaxSampleCount
  /\ rngStream \in [1 .. RngPeriod -> RngVals]
  /\ rngPos = 0
  /\ smpPc = "call"
  /\ areas = <<>>
  /\ smpI = 0
  /\ lo = 0
  /\ hi = 0
  /\ pickR = Zero
  /\ pts = <<>>
  /\ BinIdle
  /\ AscIdle
  /\ CmpIdle
  /\ ChIdle
  /\ RtIdle

NextSample ==
  \/ SampleEnter
  \/ SamplePickDraw
  \/ SamplePickStep
  \/ SamplePlace
  \/ SampleReturn

SpecSample == InitSample /\ [][NextSample]_vars

\* one pass of the sampling loop (pickTriangleIndex, then the point) on any
\* non-decreasing prefix-sum array and any value of rng()
InitPick ==
  /\ areas \in PrefixArrays
  /\ smpTriangles \in {[x \in 1 .. Len(areas) |-> t] : t \in {FlatTriangle, BigTriangle}}
  /\ smpCount = 1
  /\ \E u \in PickDraws : rngStream = <<u>>
  /\ rngPos = 0
  /\ smpPc = "loop"
  /\ smpI = 0
  /\ lo = 0
  /\ hi = 0
  /\ pickR = Zero
  /\ pts = <<Hole>>
  /\ BinIdle
  /\ AscIdle
  /\ CmpIdle
  /\ ChIdle
  /\ RtIdle

NextPick ==
  \/ SamplePickDraw
  \/ SamplePickStep
  \/ SamplePlace
  \/ SampleReturn

SpecPick == InitPick /\ [][NextPick]_vars

\* the while loop of pickTriangleIndex is synchronous code: it keeps
\* iterating as long as its condition holds
SpecPickFair == SpecPick /\ WF_vars(SamplePickStep)

\* one run of the bench on a pair of decoded meshes, with Math.random the
\* (process-wide) random source
Init ==
  /\ samplesOpt \in 1 .. MaxSamplesOption
  /\ srcTris \in BenchMeshes
  /\ genTris \in BenchMeshes
  /\ rngStream \in BenchStreams
  /\ rngPos = 0
  /\ cmpPc = "run"
  /\ aabbSrc = NullBox
  /\ aabbGen = NullBox
  /\ iou = Zero
  /\ measures = <<>>
  /\ ptsSrc = <<>>
  /\ ptsGen = <<>>
  /\ chamfer = <<>>
  /\ metrics = <<>>
  /\ SmpIdle
  /\ BinIdle
  /\ AscIdle
  /\ ChIdle
  /\ RtIdle

Next ==
  \/ BenchRun
  \/ CompareBoxes
  \/ CompareMeasures
  \/ SampleEnter
  \/ SamplePickDraw
  \/ SamplePickStep
  \/ SamplePlace
  \/ SampleReturn
  \/ CompareSampleGen
  \/ CompareChamfer
  \/ CompareReturn

Spec == Init /\ [][Next]_vars

\* chamferDistance applied to two point sets
InitChamfer ==
  /\ \E c \in 0 .. MaxCloud, stride \in {0, 1, 7, 22} : cloudA = CloudOf(c, stride, 0)
  /\ \E c \in 0 .. 2, stride \in {3, 11}, y \in {0, 1} : cloudB = CloudOf(c, stride, y)
  /\ chPc = "call"
  /\ chStats = <<>>
  /\ BinIdle
  /\ AscIdle
  /\ RngIdle
  /\ SmpIdle
  /\ CmpIdle
  /\ RtIdle

NextChamfer == ChamferCall

SpecChamfer == InitChamfer /\ [][NextChamfer]_vars

-----------------------------------------------------------------------------
(* Claims about the binary decoder, under SpecBin *)

\* the count field of a buffer that has one
CountField == getUint32(buffer, CountOffset)

\* lengths of the form 84 + 50*k within the model's lengths
FormulaLengths == {HeaderSize + TriangleSize * k : k \in 0 .. (MaxTriangles + 1)}

\* C3 as stated: isBinaryStl answers true exactly for the buffers whose length
\* is 84 + 50*k for some k >= 0, whatever their bytes are.
C3_LengthAloneDecides ==
  sniffed # "unset" => (sniffed = "true" <=> Len(buffer) \in FormulaLengths)

\* C3 amended: isBinaryStl answers true exactly when the length is 84 + 50*k
\* for the k stored in the count field at byte offset 80 (so never for a
\* length of 83 or less or a length not of the form 84 + 50*k).
C3_CountFieldDecides ==
  sniffed # "unset" =>
    /\ sniffed = "true" <=>
         \E k \in 0 .. (MaxTriangles + 1) :
           Len(buffer) = HeaderSize + TriangleSize * k /\ CountField = k
    /\ Len(buffer) \notin FormulaLengths => sniffed = "false"
    /\ Len(buffer) <= 83 => sniffed = "false"

C3_Witness ==
  /\ sniffed = "true"
  /\ Len(buffer) = HeaderSize + TriangleSize
  /\ CountField = 1

\* C4: parseBinaryStl raises if and only if the buffer is shorter than 84
\* bytes or 84 + 50*count differs from its length; when it raises no triangle
\* has been produced; and it raises exactly when isBinaryStl answers false.
C4_RaisesIffSizeMismatch ==
  binPc \in {"threw", "loop", "returned"} =>
    /\ binPc = "threw" <=>
         (Len(buffer) < 84 \/ 84 + 50 * CountField # Len(buffer))
    /\ binPc = "threw" => binTriangles = <<>>
    /\ sniffed # "unset" => (binPc = "threw" <=> sniffed = "false")

C4_Witness ==
  /\ binPc = "threw"
  /\ binError = "mismatch"
  /\ sniffed = "false"
  /\ Len(buffer) = HeaderSize + TriangleSize

\* C5: when parseBinaryStl succeeds it returns exactly count triangles in file
\* order, triangle i read from offset 84 + 50*i (normal) and +12, +24, +36
\* (vertices), the 2 attribute bytes skipped, every read inside the buffer.
C5_TrianglesAtOffsets ==
  /\ binError # "RangeError"
  /\ binPc = "returned" =>
       /\ Len(binTriangles) = CountField
       /\ \A i \in 0 .. (CountField - 1) :
            LET base == 84 + 50 * i IN
            /\ binTriangles[i + 1].normal = readFloat3(buffer, base)
            /\ binTriangles[i + 1].vertices =
                 <<readFloat3(buffer, base + 12), readFloat3(buffer, base + 24),
                   readFloat3(buffer, base + 36)>>
            /\ base + 50 <= Len(buffer)

C5_Witness ==
  /\ binPc = "returned"
  /\ Len(binTriangles) = 2
  /\ binTriangles[1] # binTriangles[2]

-----------------------------------------------------------------------------
(* Claims about the ASCII decoder, under SpecAscii / SpecAsciiFair *)

\* the vertex lines strictly between a block's outer loop and endfacet lines
VertexLinesBetween(f) ==
  Cardinality({j \in (f.outerAt + 1) .. (f.endAt - 1) : startsWithVertex(LineAt(j))})

\* a closed block whose outer loop line and endfacet line both exist
HasBothDelimiters(f) ==
  /\ f.endAt >= 0
  /\ f.outerAt < Len(lines)
  /\ f.endAt < Len(lines)

\* C6 as stated: a facet block contributes a triangle if and only if exactly 3
\* vertex lines lie between its outer loop line and its endfacet line (and no
\* other line comes before the third of them).
C6_ExactlyThreeVertexLines ==
  \A x \in 1 .. Len(facetLog) :
    LET f == facetLog[x] IN
    HasBothDelimiters(f) =>
      (f.pushed <=>
         /\ VertexLinesBetween(f) = 3
         /\ \A j \in (f.outerAt + 1) .. (f.outerAt + 3) : startsWithVertex(LineAt(j)))

\* the numbers of a vertex line, as the decoder reads them
VertexOfLine(j) ==
  LET rest == Slice(LineAt(j), 1)
  IN  Vec3OrZero([t \in 1 .. Len(rest) |-> Number(rest[t])])

PushedFacets == SelectSeq(facetLog, LAMBDA f : f.pushed)

\* triangle x is made of the three vertex lines of the x-th pushed block, and
\* those blocks lie in the text in increasing order
TrianglesInTextOrder ==
  /\ Len(ascTriangles) = Len(PushedFacets)
  /\ \A x \in 1 .. Len(ascTriangles) :
       LET at == PushedFacets[x].firstVertexAt IN
       /\ at >= 0 /\ at + 2 < Len(lines)
       /\ ascTriangles[x].vertices =
            <<VertexOfLine(at), VertexOfLine(at + 1), VertexOfLine(at + 2)>>
       /\ Len(ascTriangles[x].normal) = 3
       /\ x > 1 => PushedFacets[x - 1].firstVertexAt + 2 < at

\* C7: on every text parseAsciiStl terminates (it reaches its return), the
\* line cursor never moves backwards, and the triangles it returns are those
\* of the text, in the order of their vertex lines.
C7_TerminatesCursorForward ==
  /\ <>(ascPc = "done")
  /\ [][ascI' >= ascI]_vars
  /\ []TrianglesInTextOrder

C7_Witness ==
  /\ ascPc = "done"
  /\ Len(ascTriangles) = 2
  /\ Len(facetLog) = 2
  /\ facetLog[2].endAt >= Len(lines)

\* C8 as stated: every normal component and vertex coordinate of every
\* returned triangle is a finite number.
C8_AllCoordinatesFinite ==
  \A x \in 1 .. Len(ascTriangles) :
    /\ \A c \in 1 .. 3 : IsFinite(ascTriangles[x].normal[c])
    /\ \A v \in 1 .. 3 : \A c \in 1 .. 3 : IsFinite(ascTriangles[x].vertices[v][c])

\* the index of the nearest facet normal line before line j
NearestFacetNormalBefore(j) ==
  CHOOSE f \in 0 .. j - 1 :
    /\ startsWithFacetNormal(LineAt(f))
    /\ \A g \in f + 1 .. j - 1 : ~startsWithFacetNormal(LineAt(g))

\* C18 as stated: every returned triangle pairs its three vertices with the
\* normal of the nearest facet normal line preceding its vertex lines; a block
\* without an outer loop line never consumes the outer loop and vertex lines
\* of a later block (no facet normal line lies between a triangle's facet
\* normal line and its vertex lines); and no triangle is appended for a block
\* that is not closed by an endfacet line.
C18_NormalOfOwnBlock ==
  Len(ascTriangles) = Len(PushedFacets) =>
    \A x \in 1 .. Len(ascTriangles) :
      LET f == PushedFacets[x] IN
      /\ ascTriangles[x].normal =
           Vec3OrZero(parseFloatsFromLine(LineAt(NearestFacetNormalBefore(f.firstVertexAt))))
      /\ \A j \in f.facetAt + 1 .. f.firstVertexAt - 1 : ~startsWithFacetNormal(LineAt(j))
      /\ f.endAt < Len(lines) /\ startsWithEndfacet(LineAt(f.endAt))

\* the same for the texts in which every facet normal line is followed by an
\* outer loop line and an endfacet line before the next facet normal line or
\* the end of the text; this holds
EveryBlockDelimited ==
  \A f \in 0 .. Len(lines) - 1 :
    startsWithFacetNormal(LineAt(f)) =>
      \E o \in f + 1 .. Len(lines) - 1 : \E e \in o + 1 .. Len(lines) - 1 :
        /\ startsWithOuterLoop(LineAt(o))
        /\ startsWithEndfacet(LineAt(e))
        /\ \A g \in f + 1 .. e : ~startsWithFacetNormal(LineAt(g))
        /\ \A g \in f + 1 .. e - 1 : ~startsWithEndfacet(LineAt(g))

NormalOfOwnBlockWhenDelimited == EveryBlockDelimited => C18_NormalOfOwnBlock

-----------------------------------------------------------------------------
(* Claims about the surface sampler, under SpecSample *)

IsPoint(p) == Len(p) = 3 /\ \A c \in 1 .. 3 : IsFinite(p[c])

\* C10: sampleSurfacePoints returns exactly N points for every N > 0 and every
\* non-empty mesh (zero-area meshes included), and an empty sequence, with no
\* call of rng, when N <= 0 or the mesh has no triangles.
C10_ExactlyNPoints ==
  smpPc = "returned" =>
    IF smpCount > 0 /\ Len(smpTriangles) > 0
      THEN /\ Len(pts) = smpCount
           /\ \A x \in 1 .. Len(pts) : IsPoint(pts[x])
           /\ rngPos = 3 * smpCount
      ELSE /\ pts = <<>>
           /\ rngPos = 0

C10_Witness ==
  /\ smpPc = "returned"
  /\ smpCount = 2
  /\ smpTriangles = <<PointTriangle, PointTriangle>>
  /\ Len(pts) = 2
  /\ IsPoint(pts[2])

-----------------------------------------------------------------------------
(* Claims about the bench: src/bench.ts, compareAsciiStlText *)

\* C1 as stated: for every non-empty mesh m, flat and single-point meshes
\* included, aabbIou(aabbOfTriangles(m), aabbOfTriangles(m)) equals 1: when a
\* mesh is compared with itself the IoU of the two boxes is 1.
C1_SelfIouIsOne ==
  (cmpPc \notin {"run", "boxes"} /\ srcTris = genTris /\ srcTris # <<>>) => iou = One

\* the fields of the returned bundle
MetricFields ==
  {"aabbIou", "surfaceAreaRatio", "volumeRatio", "meanAB", "meanBA", "p95AB", "p95BA",
   "maxAB", "maxBA"}

\* C2 as stated: for every pair of decoded meshes with finite coordinates (one
\* empty, both empty or a single point included) every field of the bundle
\* compareAsciiStlText returns is a finite number, neither NaN nor Infinity.
C2_BundleIsFinite ==
  cmpPc = "done" => \A f \in MetricFields : IsFinite(metrics[f])

\* C9 as stated: the number of surface points sampled from each (non-empty)
\* mesh for the Chamfer statistics equals the sample count configured with the
\* --samples option.
C9_SamplesOptionHonoured ==
  cmpPc \in {"scale", "done"} =>
    /\ srcTris # <<>> => Len(ptsSrc) = samplesOpt
    /\ genTris # <<>> => Len(ptsGen) = samplesOpt

\* the six Chamfer values
ChamferFields == {"meanAB", "meanBA", "p95AB", "p95BA", "maxAB", "maxBA"}

\* the draws of the second sampling of a comparison repeat those of the first
\* (each sampling of a non-empty mesh makes 3 * sampleN draws)
SameDraws == \A k \in 0 .. 3 * sampleN - 1 : RngAt(k) = RngAt(3 * sampleN + k)

\* C11: when a mesh is compared with an identical copy and both samplings get
\* the same random sequence, the two point clouds are equal and meanAB,
\* meanBA, p95AB, p95BA, maxAB and maxBA are all 0 (before and after scaling).
C11_SelfComparisonIsZero ==
  (srcTris = genTris /\ SameDraws) =>
    /\ cmpPc \in {"scale", "done"} =>
         /\ ptsSrc = ptsGen
         /\ \A f \in ChamferFields : chamfer[f] = Zero
    /\ cmpPc = "done" => \A f \in ChamferFields : metrics[f] = Zero

C11_Witness ==
  /\ cmpPc = "done"
  /\ srcTris = <<FlatTriangle, BigTriangle>>
  /\ genTris = srcTris
  /\ SameDraws
  /\ Len(ptsSrc) = sampleN
  /\ ptsSrc = ptsGen
  /\ metrics.maxAB = Zero

\* C13 as stated: with the default random source the points a sampling call
\* returns do not depend on the sampling calls that ran before it in the
\* process (no generator state is shared between calls): the second sampling
\* of a comparison, called with the same triangles and the same count as the
\* first, returns the same points as the first.
C13_CallsDoNotInterfere ==
  (cmpPc \in {"scale", "done"} /\ srcTris = genTris) => ptsSrc = ptsGen

\* a number of the closed interval [0, 1]
InUnitInterval(x) == IsFinite(x) /\ NumLe(Zero, x) /\ NumLe(x, One)

\* C15 as stated: for every pair of meshes with finite coordinates the
\* returned aabbIou, surfaceAreaRatio and volumeRatio each lie in [0, 1];
\* surfaceAreaRatio is 0 exactly when one of the two areas is not strictly
\* positive, and volumeRatio is 0 exactly when one of the two absolute signed
\* volumes is not strictly positive.
C15_RatiosInUnitInterval ==
  cmpPc = "done" =>
    /\ InUnitInterval(metrics.aabbIou)
    /\ InUnitInterval(metrics.surfaceAreaRatio)
    /\ InUnitInterval(metrics.volumeRatio)
    /\ metrics.surfaceAreaRatio = Zero
         <=> ~(NumGt(measures.areaSrc, Zero) /\ NumGt(measures.areaGen, Zero))
    /\ metrics.volumeRatio = Zero
         <=> ~(NumGt(measures.volSrc, Zero) /\ NumGt(measures.volGen, Zero))

\* the same for the pairs without the mesh whose area is not finite; this
\* holds: C15 fails only where an area overflows
RatiosWithoutOverflow ==
  (srcTris # <<HugeTriangle>> /\ genTris # <<HugeTriangle>>) => C15_RatiosInUnitInterval

-----------------------------------------------------------------------------
(* Claims about chamferDistance *)

\* the distance from each point of a to the nearest point of b
MinDistances(a, b) ==
  [x \in 1 .. Len(a) |->
     LET ds == {MathSqrt(squaredDistance(a[x], b[y])) : y \in 1 .. Len(b)}
     IN  CHOOSE d \in ds : \A e \in ds : NumLe(d, e)]

\* the element at (0-based) index k of ds sorted ascending
SortedAt(ds, k) ==
  CHOOSE v \in {ds[x] : x \in 1 .. Len(ds)} :
    /\ Cardinality({x \in 1 .. Len(ds) : NumLt(ds[x], v)}) <= k
    /\ k < Cardinality({x \in 1 .. Len(ds) : NumLe(ds[x], v)})

ExpectedOneWay(a, b) ==
  LET c == Len(a)
      ds == MinDistances(a, b)
      at95 == (95 * c) \div 100
  IN  IF c = 0 THEN [mean |-> Zero, p95 |-> Zero, max |-> Zero]
      ELSE [mean |-> NumDiv(SumSeq(Zero, ds), Fin(c)),
            p95 |-> SortedAt(ds, IF c - 1 < at95 THEN c - 1 ELSE at95),
            max |-> SortedAt(ds, c - 1)]

\* C12: for a non-empty source set of size c and a non-empty target set, each
\* direction of chamferDistance reports mean = the sum of the per-point
\* minimum distances divided by c, p95 = the element at index
\* min(c - 1, floor(0.95 * c)) of these distances sorted ascending, and max =
\* the element at index c - 1; for an empty source set all three are 0.
C12_OneWayStatistics ==
  chPc = "returned" =>
    /\ (cloudA = <<>> \/ cloudB # <<>>) =>
         LET e == ExpectedOneWay(cloudA, cloudB)
         IN  chStats.meanAB = e.mean /\ chStats.p95AB = e.p95 /\ chStats.maxAB = e.max
    /\ (cloudB = <<>> \/ cloudA # <<>>) =>
         LET e == ExpectedOneWay(cloudB, cloudA)
         IN  chStats.meanBA = e.mean /\ chStats.p95BA = e.p95 /\ chStats.maxBA = e.max

C12_Witness ==
  /\ chPc = "returned"
  /\ Len(cloudA) = 21
  /\ Len(cloudB) = 2
  /\ chStats.p95AB # chStats.maxAB
  /\ chStats.meanAB # chStats.p95AB
  /\ chStats.meanBA # chStats.maxBA

-----------------------------------------------------------------------------
(* Claims about the round trip through trianglesToAscii *)

\* |a - b| <= 10^-precision
Within(a, b, precision) ==
  /\ IsFinite(a)
  /\ IsFinite(b)
  /\ LET g == Gcd(a.d, b.d)
         diff == Abs(a.n * (b.d \div g) - b.n * (a.d \div g))
     IN  ~RatLt(1, Pow10(precision), diff, (a.d \div g) * b.d)

\* the second parseAsciiStl has returned
RoundTripDone == rtPc = "second" /\ ascPc = "done"

\* C14 as stated: for every mesh M obtained by parseAsciiStl,
\* parseAsciiStl(trianglesToAscii(M, name, 6)) has the same number of
\* triangles in the same order and each vertex coordinate differs from the
\* corresponding coordinate of M by at most 10^-6.
C14_RoundTrip ==
  RoundTripDone =>
    /\ Len(ascTriangles) = Len(rtMesh)
    /\ \A t \in 1 .. Len(rtMesh) : \A v \in 1 .. 3 : \A c \in 1 .. 3 :
         Within(rtMesh[t].vertices[v][c], ascTriangles[t].vertices[v][c], 6)

\* every vertex coordinate of the mesh is a finite number
AllFinite(mesh) ==
  \A t \in 1 .. Len(mesh) : \A v \in 1 .. 3 : \A c \in 1 .. 3 :
    IsFinite(mesh[t].vertices[v][c])

\* the round trip of the meshes whose coordinates are all finite; this holds:
\* the meshes C14 fails on are those with an infinite coordinate
RoundTripOfFiniteMesh == (RoundTripDone /\ AllFinite(rtMesh)) => C14_RoundTrip

-----------------------------------------------------------------------------
(* Claims about pickTriangleIndex *)

\* the binary search is over: pickTriangleIndex returns lo
PickReturns == smpPc = "search" /\ ~(lo < hi)

\* the returned index is in [0, n-1], and when r is at most the last
\* cumulative weight it is the smallest index whose weight is >= r
PickIsSmallest ==
  PickReturns =>
    /\ lo \in 0 .. Len(areas) - 1
    /\ NumLe(pickR, areas[Len(areas)]) =>
         /\ NumLe(pickR, areas[lo + 1])
         /\ \A x \in 0 .. lo - 1 : ~NumLe(pickR, areas[x + 1])

\* C16: for every non-decreasing prefix-sum array of n >= 1 weights and every
\* draw r, the binary search of pickTriangleIndex terminates and returns an
\* index in [0, n-1]; when r is at most the last cumulative weight, the index
\* is the smallest one whose cumulative weight is >= r.
C16_PickTerminatesAtSmallest ==
  /\ []PickIsSmallest
  /\ [](smpPc = "search" => (0 <= lo /\ lo <= hi /\ hi <= Len(areas) - 1))
  /\ (smpPc = "search") ~> PickReturns

C16_Witness ==
  /\ PickReturns
  /\ areas = <<Fin(0), Fin(1), Fin(1), Fin(2)>>
  /\ pickR = One
  /\ lo = 1

\* C17 as stated: when the total surface area of the mesh is strictly
\* positive, sampleSurfacePoints never places a sample on a zero-area
\* triangle (the triangle pickTriangleIndex returns has a positive area),
\* wherever the zero-area triangle is in the sequence and for every rng value
\* in [0, 1), the value 0 included.
C17_NeverOnZeroArea ==
  (PickReturns /\ NumGt(surfaceArea(smpTriangles), Zero)) =>
    NumGt(triangleArea(smpTriangles[lo + 1]), Zero)

\* the same when rng never yields 0; this holds: a zero-area triangle is
\* chosen only as the first triangle(s) of the sequence, with the draw 0
NeverOnZeroAreaForPositiveDraws ==
  (\A x \in 1 .. Len(rngStream) : rngStream[x] # Zero) => C17_NeverOnZeroArea

=============================================================================
